---- MODULE Spec2Model ----
(***************************************************************************)
(* A model of src/expressions/expressions.py: expression nodes held in a   *)
(* heap (a node's identity is its index), the arithmetic combinators, the *)
(* renderer (__str__), the explicit-stack postorder traversal             *)
(* (postvisitor) and the singledispatch differentiation rules.            *)
(***************************************************************************)
EXTENDS Integers, Sequences, FiniteSets, TLC

\* ------------------------------------------------------------------ bounds
\* Nodes an operand graph given to postvisitor may have.
NumNodes == 3
\* Operands a node of such a graph may have.
MaxArity == 2

\* The size (nodes plus operand references) of what a caller builds before
\* rendering or differentiating it; the rules build further nodes.
MaxSize == 6
\* Successive differentiations (each of the latest node).
MaxDiffs == 2

\* The numeric and textual values the callers use.
NumVals == {3}
Names == {"x", "y"}

VARIABLES
    last,      \* the latest constructor, combinator or str call and its outcome
    diffs,     \* the differentiate calls so far, each with its outcome
    heap,      \* Seq of nodes; heap[i] is the object whose identity is i
    expr,      \* postvisitor's argument expr (0: no traversal under way)
    stack,     \* postvisitor's stack: Seq of <<node, processed>>
    visited,   \* postvisitor's memo: node -> fn's result (NotVisited: no key)
    calls,     \* the applications of fn so far: Seq of <<node, operand_results>>
    pc,        \* "idle" | "loop" | "done" | "error"
    ret        \* the value postvisitor returned (NotVisited: none yet)

vars == <<last, diffs, heap, expr, stack, visited, calls, pc, ret>>
travVars == <<expr, stack, visited, calls, pc, ret>>

\* ------------------------------------------------------------- node model
\* Expression.__init__: the node keeps the operand tuple it was given.
Expression(kind, num, name, operands) ==
    [kind |-> kind, num |-> num, name |-> name, operands |-> operands]

Nodes(h) == 1..Len(h)

\* All sequences over S of length lo..hi.
SeqsOver(S, lo, hi) == UNION {[1..k -> S] : k \in lo..hi}

\* The nodes reachable from n along operands (n included).
ReachStep(h, S) == S \cup UNION {{h[n].operands[i] : i \in 1..Len(h[n].operands)} : n \in S}
RECURSIVE Closure(_, _)
Closure(h, S) == IF ReachStep(h, S) = S THEN S ELSE Closure(h, ReachStep(h, S))
Reach(h, n) == Closure(h, {n})
Below(h, n) == Closure(h, {h[n].operands[i] : i \in 1..Len(h[n].operands)})
\* No cycle can be reached from n.
AcyclicFrom(h, n) == \A m \in Reach(h, n) : m \notin Below(h, m)
\* A Python value handed to a constructor or a combinator: a numeric literal,
\* a string, or (a reference to) an Expression.
NumLit(c) == [type |-> "num", num |-> c, name |-> ""]
StrLit(t) == [type |-> "str", num |-> 0, name |-> t]
Ref(n) == [type |-> "expr", num |-> n, name |-> ""]
NoValue == [type |-> "none", num |-> 0, name |-> ""]
Literals == {NumLit(c) : c \in NumVals} \cup {StrLit(t) : t \in Names}

\* isinstance(v, Expression)
IsExpression(v) == v.type = "expr"

OperatorKinds == {"Operator", "Add", "Sub", "Mul", "Div", "Pow"}
\* isinstance(node, Operator)
IsOperator(node) == node.kind \in OperatorKinds

\* The class attribute precedence; Infinity stands for float('inf').
Infinity == 99
precedence(kind) ==
    CASE kind = "Operator" -> 0
      [] kind = "Add" -> 1
      [] kind = "Sub" -> 1
      [] kind = "Mul" -> 2
      [] kind = "Div" -> 2
      [] kind = "Pow" -> 3
      [] OTHER -> Infinity

\* The class attribute symbol, as the f-string formats it.
symbol(kind) ==
    CASE kind = "Add" -> "+"
      [] kind = "Sub" -> "-"
      [] kind = "Mul" -> "*"
      [] kind = "Div" -> "/"
      [] kind = "Pow" -> "^"
      [] OTHER -> "None"

\* An attempted construction: the node, or the exception raised instead.
Built(node) == [err |-> "OK", node |-> node]
Failed(e) == [err |-> e, node |-> Expression("", 0, "", <<>>)]

\* Operator.__init__ (and its subclasses, which add no __init__)
Operator(kind, operands) ==
    IF Len(operands) < 1 THEN Failed("ValueError")
    ELSE Built(Expression(kind, 0, "", operands))

\* Number.__init__
Number(value) ==
    IF value.type # "num" THEN Failed("ValueError")
    ELSE Built(Expression("Number", value.num, "", <<>>))

\* Symbol.__init__
Symbol(value) ==
    IF value.type # "str" THEN Failed("ValueError")
    ELSE Built(Expression("Symbol", 0, value.name, <<>>))

\* The outcome of code that may build nodes: the heap with the nodes built,
\* and the node returned (res), or the exception raised (err).
Raised(h, e) == [err |-> e, heap |-> h, res |-> 0]
Returned(h, n) == [err |-> "OK", heap |-> h, res |-> n]
\* A constructor call: the new object gets a fresh identity.
Construct(h, built) ==
    IF built.err # "OK" THEN Raised(h, built.err)
    ELSE Returned(Append(h, built.node), Len(h) + 1)

\* ------------------------------------------------------------ combinators
\* if not isinstance(other, Expression): other = Number(other)
Coerce(h, other) ==
    IF IsExpression(other) THEN Returned(h, other.num)
    ELSE Construct(h, Number(other))

__add__(h, self, other) ==
    LET c == Coerce(h, other) IN
    IF c.err # "OK" THEN c ELSE Construct(c.heap, Operator("Add", <<self, c.res>>))

__sub__(h, self, other) ==
    LET c == Coerce(h, other) IN
    IF c.err # "OK" THEN c ELSE Construct(c.heap, Operator("Sub", <<self, c.res>>))

__mul__(h, self, other) ==
    LET c == Coerce(h, other) IN
    IF c.err # "OK" THEN c ELSE Construct(c.heap, Operator("Mul", <<self, c.res>>))

__truediv__(h, self, other) ==
    LET c == Coerce(h, other) IN
    IF c.err # "OK" THEN c ELSE Construct(c.heap, Operator("Div", <<self, c.res>>))

__pow__(h, self, other) ==
    LET c == Coerce(h, other) IN
    IF c.err # "OK" THEN c ELSE Construct(c.heap, Operator("Pow", <<self, c.res>>))

__radd__(h, self, other) == __add__(h, self, other)

\* __rsub__ delegating to __sub__, as __radd__ does to __add__.
rsubSwapped(h, self, other) == __sub__(h, self, other)
\* def __rsub__(self, other)
__rsub__(h, self, other) ==
    LET c == Coerce(h, other) IN
    IF c.err # "OK" THEN c ELSE Construct(c.heap, Operator("Sub", <<c.res, self>>))

__rmul__(h, self, other) == __mul__(h, self, other)

__rtruediv__(h, self, other) ==
    LET c == Coerce(h, other) IN
    IF c.err # "OK" THEN c ELSE Construct(c.heap, Operator("Div", <<c.res, self>>))

__rpow__(h, self, other) ==
    LET c == Coerce(h, other) IN
    IF c.err # "OK" THEN c ELSE Construct(c.heap, Operator("Pow", <<c.res, self>>))

Methods == {"__add__", "__sub__", "__mul__", "__truediv__", "__pow__",
            "__radd__", "__rsub__", "__rmul__", "__rtruediv__", "__rpow__"}

\* self.<method>(other)
Call(method, h, self, other) ==
    CASE method = "__add__" -> __add__(h, self, other)
      [] method = "__sub__" -> __sub__(h, self, other)
      [] method = "__mul__" -> __mul__(h, self, other)
      [] method = "__truediv__" -> __truediv__(h, self, other)
      [] method = "__pow__" -> __pow__(h, self, other)
      [] method = "__radd__" -> __radd__(h, self, other)
      [] method = "__rsub__" -> __rsub__(h, self, other)
      [] method = "__rmul__" -> __rmul__(h, self, other)
      [] method = "__rtruediv__" -> __rtruediv__(h, self, other)
      [] method = "__rpow__" -> __rpow__(h, self, other)

\* --------------------------------------------------------------- renderer
\* Text is a sequence of tokens.
\* [op for op in operands if isinstance(op, Number) = wanted], for the two
\* lists of Mul.__str__
RECURSIVE NumberOperands(_, _, _, _)
NumberOperands(h, operands, i, wanted) ==
    IF i > Len(operands) THEN <<>>
    ELSE (IF (h[operands[i]].kind = "Number") = wanted
             THEN <<operands[i]>> ELSE <<>>)
         \o NumberOperands(h, operands, i + 1, wanted)

RECURSIVE __str__(_, _)

\* if isinstance(operand, Operator) and operand.precedence < self.precedence:
\*     f"({operand})"  else: str(operand)
OperatorPart(h, n, operand) ==
    IF IsOperator(h[operand]) /\ precedence(h[operand].kind) < precedence(h[n].kind)
    THEN <<"(">> \o __str__(h, operand) \o <<")">>
    ELSE __str__(h, operand)

\* f" {self.symbol} ".join(parts), from part i on
RECURSIVE OperatorJoin(_, _, _)
OperatorJoin(h, n, i) ==
    IF i > Len(h[n].operands) THEN <<>>
    ELSE (IF i > 1 THEN <<symbol(h[n].kind)>> ELSE <<>>)
         \o OperatorPart(h, n, h[n].operands[i])
         \o OperatorJoin(h, n, i + 1)

\* " * ".join(str(op) for op in constants + others), from part i on
RECURSIVE MulJoin(_, _, _)
MulJoin(h, ordered, i) ==
    IF i > Len(ordered) THEN <<>>
    ELSE (IF i > 1 THEN <<"*">> ELSE <<>>)
         \o __str__(h, ordered[i])
         \o MulJoin(h, ordered, i + 1)

\* str(node): Terminal.__str__, Mul.__str__, Operator.__str__
__str__(h, n) ==
    CASE h[n].kind = "Number" -> <<ToString(h[n].num)>>
      [] h[n].kind = "Symbol" -> <<h[n].name>>
      [] h[n].kind = "Mul" ->
           MulJoin(h, NumberOperands(h, h[n].operands, 1, TRUE)
                          \o NumberOperands(h, h[n].operands, 1, FALSE), 1)
      [] OTHER -> OperatorJoin(h, n, 1)

\* ------------------------------------------------------- differentiation
\* The state threaded through one differentiate call: the heap with the nodes
\* built so far, the value of the latest sub-expression (res), the exception
\* raised (err) and the node whose rule raised it (at), and the rule
\* applications that have returned (log: <<node, derivative>>).
Start(h) == [err |-> "OK", heap |-> h, res |-> 0, at |-> 0, log |-> <<>>]

\* A constructor call inside a rule; after an exception nothing more runs.
New(st, built) ==
    IF st.err # "OK" THEN st
    ELSE [st EXCEPT !.heap = Append(st.heap, built.node),
                    !.res = Len(st.heap) + 1]

\* raise e, in the rule applied to node n
Raise(st, e, n) ==
    IF st.err # "OK" THEN st
    ELSE [st EXCEPT !.err = e, !.at = n, !.res = 0]

\* The rule applied to node n returns st.res.
Return_(st, n) ==
    IF st.err # "OK" THEN st
    ELSE [st EXCEPT !.log = Append(st.log, <<n, st.res>>)]

RECURSIVE differentiate(_, _, _)

\* @singledispatch def differentiate: the f-string reads type(expr)._name_,
\* which no class has, so AttributeError is raised in place of the
\* NotImplementedError being built.
Default(st, n, var) == Raise(st, "AttributeError", n)

\* @differentiate.register(Number)
NumberRule(st, n, var) == Return_(New(st, Number(NumLit(0))), n)

\* @differentiate.register(Symbol)
SymbolRule(st, n, var) ==
    Return_(New(st, Number(NumLit(IF st.heap[n].name = var THEN 1 ELSE 0))), n)

\* [differentiate(op, var=var) for op in expr.operands]: the state after the
\* operands from i on, and the derivatives collected.
RECURSIVE DiffEach(_, _, _, _, _)
DiffEach(st, operands, i, out, var) ==
    IF i > Len(operands) \/ st.err # "OK" THEN [st |-> st, out |-> out]
    ELSE LET d == differentiate(st, operands[i], var)
         IN  DiffEach(d, operands, i + 1, Append(out, d.res), var)

\* The Add rule with a memo: an operand met before is not differentiated again.
RECURSIVE DiffEachMemo(_, _, _, _, _)
DiffEachMemo(st, operands, i, out, var) ==
    IF i > Len(operands) \/ st.err # "OK" THEN [st |-> st, out |-> out]
    ELSE IF \E j \in 1..(i - 1) : operands[j] = operands[i]
         THEN LET j == CHOOSE j \in 1..(i - 1) : operands[j] = operands[i]
              IN  DiffEachMemo(st, operands, i + 1, Append(out, out[j]), var)
         ELSE LET d == differentiate(st, operands[i], var)
              IN  DiffEachMemo(d, operands, i + 1, Append(out, d.res), var)
AddRuleMemo(st, n, var) ==
    LET each == DiffEachMemo(st, st.heap[n].operands, 1, <<>>, var)
    IN  Return_(New(each.st, Operator("Add", each.out)), n)
\* @differentiate.register(Add)
AddRule(st, n, var) ==
    LET each == DiffEach(st, st.heap[n].operands, 1, <<>>, var)
    IN  Return_(New(each.st, Operator("Add", each.out)), n)

\* The Mul rule with the second product built as Mul(f, d(g)).
MulRuleSwapped(st, n, var) ==
    LET operands == st.heap[n].operands IN
    IF Len(operands) # 2 THEN Raise(st, "ValueError", n)
    ELSE LET f == operands[1]
             g == operands[2]
             df == differentiate(st, f, var)
             left == New(df, Operator("Mul", <<df.res, g>>))
             dg == differentiate(left, g, var)
             right == New(dg, Operator("Mul", <<f, dg.res>>))
         IN  Return_(New(right, Operator("Add", <<left.res, right.res>>)), n)
\* @differentiate.register(Mul)
MulRule(st, n, var) ==
    LET operands == st.heap[n].operands IN
    IF Len(operands) # 2 THEN Raise(st, "ValueError", n)   \* f, g = expr.operands
    ELSE LET f == operands[1]
             g == operands[2]
             df == differentiate(st, f, var)
             left == New(df, Operator("Mul", <<df.res, g>>))
             dg == differentiate(left, g, var)
             right == New(dg, Operator("Mul", <<dg.res, f>>))
         IN  Return_(New(right, Operator("Add", <<left.res, right.res>>)), n)

\* @differentiate.register(Div)
DivRule(st, n, var) ==
    LET operands == st.heap[n].operands IN
    IF Len(operands) # 2 THEN Raise(st, "ValueError", n)   \* f, g = expr.operands
    ELSE LET f == operands[1]
             g == operands[2]
             df == differentiate(st, f, var)
             left == New(df, Operator("Mul", <<df.res, g>>))
             dg == differentiate(left, g, var)
             right == New(dg, Operator("Mul", <<dg.res, f>>))
             num == New(right, Operator("Sub", <<left.res, right.res>>))
             two == New(num, Number(NumLit(2)))
             den == New(two, Operator("Pow", <<g, two.res>>))
         IN  Return_(New(den, Operator("Div", <<num.res, den.res>>)), n)

\* The Pow rule without the factor d(base).
PowRuleNoChain(st, n, var) ==
    LET operands == st.heap[n].operands IN
    IF Len(operands) # 2 THEN Raise(st, "ValueError", n)
    ELSE LET base == operands[1]
             exponent == operands[2]
         IN  IF st.heap[exponent].kind = "Number"
             THEN LET one == New(st, Number(NumLit(1)))
                      less == New(one, Operator("Sub", <<exponent, one.res>>))
                      pow == New(less, Operator("Pow", <<base, less.res>>))
                  IN  Return_(New(pow, Operator("Mul", <<exponent, pow.res>>)), n)
             ELSE Raise(st, "NotImplementedError", n)
\* The Pow rule with the new exponent evaluated to Number(n - 1).
PowRuleFolded(st, n, var) ==
    LET operands == st.heap[n].operands IN
    IF Len(operands) # 2 THEN Raise(st, "ValueError", n)
    ELSE LET base == operands[1]
             exponent == operands[2]
         IN  IF st.heap[exponent].kind = "Number"
             THEN LET less == New(st, Number(NumLit(st.heap[exponent].num - 1)))
                      pow == New(less, Operator("Pow", <<base, less.res>>))
                      coef == New(pow, Operator("Mul", <<exponent, pow.res>>))
                      dbase == differentiate(coef, base, var)
                  IN  Return_(New(dbase, Operator("Mul", <<coef.res, dbase.res>>)), n)
             ELSE Raise(st, "NotImplementedError", n)
\* @differentiate.register(Pow)
PowRule(st, n, var) ==
    LET operands == st.heap[n].operands IN
    IF Len(operands) # 2 THEN Raise(st, "ValueError", n)   \* base, exponent = ...
    ELSE LET base == operands[1]
             exponent == operands[2]
         IN  IF st.heap[exponent].kind = "Number"
             THEN LET one == New(st, Number(NumLit(1)))
                      less == New(one, Operator("Sub", <<exponent, one.res>>))
                      pow == New(less, Operator("Pow", <<base, less.res>>))
                      coef == New(pow, Operator("Mul", <<exponent, pow.res>>))
                      dbase == differentiate(coef, base, var)
                  IN  Return_(New(dbase, Operator("Mul", <<coef.res, dbase.res>>)), n)
             ELSE Raise(st, "NotImplementedError", n)

\* singledispatch: the rule registered for the node's class, else the default.
differentiate(st, n, var) ==
    IF st.err # "OK" THEN st
    ELSE LET kind == st.heap[n].kind
         IN  CASE kind = "Number" -> NumberRule(st, n, var)
               [] kind = "Symbol" -> SymbolRule(st, n, var)
               [] kind = "Add" -> AddRule(st, n, var)
               [] kind = "Mul" -> MulRule(st, n, var)
               [] kind = "Div" -> DivRule(st, n, var)
               [] kind = "Pow" -> PowRule(st, n, var)
               [] OTHER -> Default(st, n, var)

\* ------------------------------------------------ the caller's operations
NoCall == [op |-> "", self |-> 0, other |-> NoValue, err |-> "OK", res |-> 0,
           text |-> <<>>]

\* Nodes plus operand references.
RECURSIVE Size(_)
Size(h) == IF h = <<>> THEN 0
           ELSE 1 + Len(h[Len(h)].operands) + Size(SubSeq(h, 1, Len(h) - 1))

\* A session builds its expression and then renders or differentiates it; an
\* exception that nothing catches ends it.
Building == diffs = <<>> /\ last.op # "__str__" /\ last.err = "OK"
\* What is built stays within the size bound.
Fits(h) == Size(h) <= MaxSize
\* There is room for a node with the given number of operands.
Room(operands) == Building /\ Size(heap) + 1 + operands <= MaxSize

\* Number(value)
NewNumber(value) ==
    /\ Building
    /\ LET r == Construct(heap, Number(value)) IN
       /\ Fits(r.heap)
       /\ heap' = r.heap
       /\ last' = [NoCall EXCEPT !.op = "Number", !.other = value,
                                 !.err = r.err, !.res = r.res]
    /\ UNCHANGED <<diffs, travVars>>

\* Symbol(value)
NewSymbol(value) ==
    /\ Building
    /\ LET r == Construct(heap, Symbol(value)) IN
       /\ Fits(r.heap)
       /\ heap' = r.heap
       /\ last' = [NoCall EXCEPT !.op = "Symbol", !.other = value,
                                 !.err = r.err, !.res = r.res]
    /\ UNCHANGED <<diffs, travVars>>

\* Operator(*operands), Add(*operands), ..., Pow(*operands)
NewOperator(kind, operands) ==
    /\ Building
    /\ LET r == Construct(heap, Operator(kind, operands)) IN
       /\ Fits(r.heap)
       /\ heap' = r.heap
       /\ last' = [NoCall EXCEPT !.op = kind, !.err = r.err, !.res = r.res]
    /\ UNCHANGED <<diffs, travVars>>

\* self + other, other - self, ...: the method Python calls for the infix form
Combine(method, self, other) ==
    /\ Building
    /\ LET r == Call(method, heap, self, other) IN
       /\ Fits(r.heap)
       /\ heap' = r.heap
       /\ last' = [NoCall EXCEPT !.op = method, !.self = self, !.other = other,
                                 !.err = r.err, !.res = r.res]
    /\ UNCHANGED <<diffs, travVars>>

\* str(node), of the node built latest
Str ==
    /\ heap # <<>>
    /\ last.op # "__str__" /\ last.err = "OK"
    /\ \A i \in 1..Len(diffs) : diffs[i].err = "OK"
    /\ last' = [NoCall EXCEPT !.op = "__str__", !.self = Len(heap),
                              !.text = __str__(heap, Len(heap))]
    /\ UNCHANGED <<heap, diffs, travVars>>

\* differentiate(node, var=var), of the node built latest (which, after a
\* differentiation that returned, is the derivative, differentiated again with
\* respect to the same variable); the nodes built by a call that raises are
\* dropped with it.
Differentiate(var) ==
    /\ heap # <<>>
    /\ diffs # <<>> => var = diffs[1].var
    /\ last.err = "OK"
    /\ Len(diffs) < MaxDiffs
    /\ \A i \in 1..Len(diffs) : diffs[i].err = "OK"
    /\ \E d \in {differentiate(Start(heap), Len(heap), var)} :
       /\ heap' = IF d.err = "OK" THEN d.heap ELSE heap
       /\ diffs' = Append(diffs, [expr |-> Len(heap), var |-> var, err |-> d.err,
                                  res |-> d.res, at |-> d.at, log |-> d.log])
    /\ last' = NoCall
    /\ UNCHANGED travVars

Init ==
    /\ heap = <<>>
    /\ last = NoCall
    /\ diffs = <<>>
    /\ expr = 0 /\ stack = <<>> /\ visited = <<>> /\ calls = <<>>
    /\ pc = "idle" /\ ret = <<>>

Next ==
    \/ Room(0) /\ \E value \in Literals : NewNumber(value)
    \/ Room(0) /\ \E value \in Literals : NewSymbol(value)
    \/ Room(0) /\ \E kind \in OperatorKinds :
           \E operands \in SeqsOver(Nodes(heap), 0, MaxSize - Size(heap) - 1) :
               NewOperator(kind, operands)
    \/ Room(2) /\ \E method \in Methods : \E self \in Nodes(heap) :
           \E other \in {NumLit(c) : c \in NumVals} \cup {Ref(n) : n \in Nodes(heap)} :
               Combine(method, self, other)
    \/ Str
    \/ \E var \in Names : Differentiate(var)

Spec == Init /\ [][Next]_vars

\* ------------------------------- claims on the renderer and the combinators
\* The expression under node n as a term: what structural equality compares.
RECURSIVE Tree(_, _)
Tree(h, n) ==
    [kind |-> h[n].kind, num |-> h[n].num, name |-> h[n].name,
     args |-> [i \in 1..Len(h[n].operands) |-> Tree(h, h[n].operands[i])]]
T(kind, args) == [kind |-> kind, num |-> 0, name |-> "", args |-> args]
NumT(c) == [kind |-> "Number", num |-> c, name |-> "", args |-> <<>>]

\* The operands of n in the order they are rendered (Mul: Numbers first).
RenderOrder(h, n) ==
    IF h[n].kind = "Mul"
    THEN NumberOperands(h, h[n].operands, 1, TRUE)
             \o NumberOperands(h, h[n].operands, 1, FALSE)
    ELSE h[n].operands

\* The text of n when each operand is parenthesized exactly if it is an
\* Operator of strictly lower precedence than n.
RECURSIVE ParenthesizedFrom(_, _, _)
ParenthesizedFrom(h, n, i) ==
    LET ordered == RenderOrder(h, n) IN
    IF i > Len(ordered) THEN <<>>
    ELSE (IF i > 1 THEN <<symbol(h[n].kind)>> ELSE <<>>)
         \o (IF IsOperator(h[ordered[i]])
                 /\ precedence(h[ordered[i]].kind) < precedence(h[n].kind)
              THEN <<"(">> \o __str__(h, ordered[i]) \o <<")">>
              ELSE __str__(h, ordered[i]))
         \o ParenthesizedFrom(h, n, i + 1)

\* C3: the text of an Operator node has each operand in parentheses if and
\* only if the operand is an Operator of strictly lower precedence.
C3_ParenthesizedIffLower ==
    (last.op = "__str__" /\ IsOperator(heap[last.self])) =>
        last.text = ParenthesizedFrom(heap, last.self, 1)

ReflectedOrdered == {"__rsub__", "__rtruediv__", "__rpow__"}
KindBuilt(method) ==
    CASE method \in {"__add__", "__radd__"} -> "Add"
      [] method \in {"__sub__", "__rsub__"} -> "Sub"
      [] method \in {"__mul__", "__rmul__"} -> "Mul"
      [] method \in {"__truediv__", "__rtruediv__"} -> "Div"
      [] method \in {"__pow__", "__rpow__"} -> "Pow"

\* C7: a combinator given a numeric literal c builds a Number(c) node and a
\* node of its operator whose two operands are that Number and self, both
\* nodes; the reflected -, / and ^ put the Number first.
C7_ReflectedKeepsLiteralFirst ==
    (last.op \in Methods /\ last.other.type = "num") =>
        /\ last.err = "OK"
        /\ last.res = Len(heap)
        /\ LET number == last.res - 1
               built == heap[last.res]
           IN  /\ heap[number] = Expression("Number", last.other.num, "", <<>>)
               /\ built.kind = KindBuilt(last.op)
               /\ Len(built.operands) = 2
               /\ \A i \in 1..2 : built.operands[i] \in {last.self, number}
               /\ \E i \in 1..2 : built.operands[i] = number
               /\ \E i \in 1..2 : built.operands[i] = last.self
               /\ last.op \in ReflectedOrdered =>
                      built.operands = <<number, last.self>>

\* 3 - e has been evaluated.
C7_Witness ==
    /\ last.op = "__rsub__"
    /\ last.other = NumLit(3)
    /\ last.err = "OK"
    /\ heap[last.res].kind = "Sub"

\* ---------------------------------------------- claims on differentiation
\* The kinds with a registered rule.
Registered == {"Number", "Symbol", "Add", "Mul", "Div", "Pow"}

\* The derivative of node n as a term (when differentiating n returns).
Derivative(h, n, var) == differentiate(Start(h), n, var)
DerivativeTree(h, n, var) ==
    LET d == Derivative(h, n, var) IN Tree(d.heap, d.res)

\* C4: a call that reaches a node of a kind with no registered rule fails
\* with the error of the unsupported-kind kind (NotImplementedError).
C4_UnregisteredKindError ==
    \A i \in 1..Len(diffs) :
        (diffs[i].err # "OK" /\ heap[diffs[i].at].kind \notin Registered) =>
            diffs[i].err = "NotImplementedError"

\* C5 as stated: the derivative of Pow(base, Number(n)) is
\* Mul(Mul(Number(n), Pow(base, Number(n-1))), d(base)).
C5_ExponentFolded ==
    \A i \in 1..Len(diffs) :
        LET e == heap[diffs[i].expr] IN
        (e.kind = "Pow" /\ Len(e.operands) = 2 /\ diffs[i].err = "OK") =>
            LET n == heap[e.operands[2]].num IN
            Tree(heap, diffs[i].res) =
                T("Mul", <<T("Mul", <<NumT(n),
                                     T("Pow", <<Tree(heap, e.operands[1]),
                                                NumT(n - 1)>>)>>),
                           DerivativeTree(heap, e.operands[1], diffs[i].var)>>)

\* C5, amended: the derivative of Pow(base, Number(n)) is
\* Mul(Mul(Number(n), Pow(base, Sub(Number(n), Number(1)))), d(base)): the new
\* exponent is the unevaluated difference.
C5_PowerRule ==
    \A i \in 1..Len(diffs) :
        LET e == heap[diffs[i].expr] IN
        (e.kind = "Pow" /\ Len(e.operands) = 2
            /\ heap[e.operands[2]].kind = "Number"
            /\ Derivative(heap, e.operands[1], diffs[i].var).err = "OK") =>
            LET n == heap[e.operands[2]].num IN
            /\ diffs[i].err = "OK"
            /\ Tree(heap, diffs[i].res) =
                T("Mul", <<T("Mul", <<NumT(n),
                                     T("Pow", <<Tree(heap, e.operands[1]),
                                                T("Sub", <<NumT(n), NumT(1)>>)>>)>>),
                           DerivativeTree(heap, e.operands[1], diffs[i].var)>>)

\* Pow(Symbol("x"), Number(3)) has been differentiated with respect to x.
C5_Witness ==
    \E i \in 1..Len(diffs) :
        LET e == heap[diffs[i].expr] IN
        /\ e.kind = "Pow" /\ Len(e.operands) = 2
        /\ heap[e.operands[1]] = Expression("Symbol", 0, "x", <<>>)
        /\ heap[e.operands[2]] = Expression("Number", 3, "", <<>>)
        /\ diffs[i].var = "x" /\ diffs[i].err = "OK"

Differentiated(h, n) ==
    CASE h[n].kind \in {"Add", "Mul", "Div"} -> h[n].operands
      [] h[n].kind = "Pow" -> <<h[n].operands[1]>>
      [] OTHER -> <<>>

\* How many times node m occurs under n at positions the rules differentiate.
RECURSIVE Occurrences(_, _, _)
RECURSIVE OccurrencesFrom(_, _, _, _)
OccurrencesFrom(h, operands, i, m) ==
    IF i > Len(operands) THEN 0
    ELSE Occurrences(h, operands[i], m) + OccurrencesFrom(h, operands, i + 1, m)
Occurrences(h, n, m) ==
    (IF n = m THEN 1 ELSE 0) + OccurrencesFrom(h, Differentiated(h, n), 1, m)

\* C9: in a call that returns, the rule of a node is applied once per
\* occurrence of the node, and every application returns a node of its own.
C9_NoMemo ==
    \A i \in 1..Len(diffs) :
        diffs[i].err = "OK" =>
            LET log == diffs[i].log IN
            /\ \A m \in 1..diffs[i].expr :
                   Cardinality({k \in 1..Len(log) : log[k][1] = m})
                       = Occurrences(heap, diffs[i].expr, m)
            /\ \A k \in 1..Len(log) : log[k][1] \in 1..diffs[i].expr
            /\ \A j, k \in 1..Len(log) : j # k => log[j][2] # log[k][2]

\* Add(shared, shared) has been differentiated.
C9_Witness ==
    \E i \in 1..Len(diffs) :
        LET e == heap[diffs[i].expr] IN
        /\ e.kind = "Add" /\ Len(e.operands) = 2
        /\ e.operands[1] = e.operands[2]
        /\ diffs[i].err = "OK"
        /\ Len(diffs[i].log) = 3

\* The nodes under n at positions the rules differentiate.
RECURSIVE DifferentiatedUnder(_, _)
DifferentiatedUnder(h, n) ==
    {n} \cup UNION {DifferentiatedUnder(h, Differentiated(h, n)[i]) :
                       i \in 1..Len(Differentiated(h, n))}

\* Built only from Number, Symbol, Add and two-operand Mul.
Basic(h, n) ==
    \A m \in Reach(h, n) :
        \/ h[m].kind \in {"Number", "Symbol", "Add"}
        \/ h[m].kind = "Mul" /\ Len(h[m].operands) = 2

\* C10: a derivative of an expression with a Pow or a Div at a differentiated
\* position cannot be differentiated again (same var): the call fails; an
\* expression of Number, Symbol, Add and two-operand Mul nodes has a
\* derivative of that form, so it can be differentiated again and again.
C10_NotClosedUnderRepetition ==
    \A i \in 1..Len(diffs) :
        /\ Basic(heap, diffs[i].expr) =>
               diffs[i].err = "OK" /\ Basic(heap, diffs[i].res)
        /\ i > 1 =>
               /\ diffs[i].var = diffs[i - 1].var
               /\ diffs[i].expr = diffs[i - 1].res
               /\ (\E m \in DifferentiatedUnder(heap, diffs[i - 1].expr) :
                       heap[m].kind \in {"Pow", "Div"})
                   => diffs[i].err \in {"NotImplementedError", "AttributeError"}

\* The derivative of a Pow has been differentiated again.
C10_Witness ==
    /\ Len(diffs) = 2
    /\ heap[diffs[1].expr].kind = "Pow"
    /\ diffs[1].err = "OK"
    /\ diffs[2].var = diffs[1].var
    /\ diffs[2].err = "NotImplementedError"

\* ---------------------------------------------------------- postvisitor
NotVisited == <<>>

\* fn(node, *operand_results): the free interpretation of fn, of which every
\* deterministic fn is an image.
fn(node, operand_results) == <<node, operand_results>>

\* OperandResults in the order the children were pushed (reversed).
OperandResultsReversed(vis, operands) ==
    [i \in 1..Len(operands) |-> vis[operands[Len(operands) + 1 - i]]]
\* tuple(visited[c] for c in node.operands)
OperandResults(vis, operands) == [i \in 1..Len(operands) |-> vis[operands[i]]]

\* PushChildren that stops after the first child it looks at.
PushChildrenLastOnly(stk, operands, i, vis) ==
    IF i = 0 \/ vis[operands[i]] # NotVisited THEN stk
    ELSE Append(stk, <<operands[i], FALSE>>)
\* for child in reversed(node.operands): if child not in visited: push (child, False)
RECURSIVE PushChildren(_, _, _, _)
PushChildren(stk, operands, i, vis) ==
    IF i = 0 THEN stk
    ELSE PushChildren(
             IF vis[operands[i]] = NotVisited
                 THEN Append(stk, <<operands[i], FALSE>>)
                 ELSE stk,
             operands, i - 1, vis)

\* Seen without the memo lookup: no node is ever taken as visited.
SeenNever(vis, node) == FALSE
\* node in visited (the memo is keyed by identity: Expression defines no __eq__)
Seen(vis, node) == vis[node] # NotVisited

\* The stack never needs more room than this on an acyclic graph; on a cyclic
\* one it grows without bound, and the model stops the growth here.
StackCap == 2 + (NumNodes + 1) * MaxArity

Top == stack[Len(stack)]
Popped == SubSeq(stack, 1, Len(stack) - 1)

\* if node in visited: continue
Skip ==
    /\ pc = "loop" /\ stack # <<>>
    /\ Seen(visited, Top[1])
    /\ stack' = Popped
    /\ UNCHANGED <<last, diffs, heap, expr, visited, calls, pc, ret>>

\* if processed: visited[node] = fn(node, *operand_results)
Process ==
    /\ pc = "loop" /\ stack # <<>>
    /\ ~Seen(visited, Top[1])
    /\ Top[2]
    /\ LET node == Top[1]
           operands == heap[node].operands
       IN  IF \E i \in 1..Len(operands) : visited[operands[i]] = NotVisited
           THEN \* visited[c] raises KeyError
                /\ pc' = "error"
                /\ stack' = Popped
                /\ UNCHANGED <<visited, calls>>
           ELSE /\ visited' = [visited EXCEPT
                       ![node] = fn(node, OperandResults(visited, operands))]
                /\ calls' = Append(calls, <<node, OperandResults(visited, operands)>>)
                /\ stack' = Popped
                /\ pc' = pc
    /\ UNCHANGED <<last, diffs, heap, expr, ret>>

\* else: push (node, True), then the children not yet visited, reversed
Expand ==
    /\ pc = "loop" /\ stack # <<>>
    /\ ~Seen(visited, Top[1])
    /\ ~Top[2]
    /\ LET node == Top[1]
           pushed == PushChildren(Append(Popped, <<node, TRUE>>),
                                  heap[node].operands,
                                  Len(heap[node].operands), visited)
       IN  /\ Len(pushed) <= StackCap
           /\ stack' = pushed
    /\ UNCHANGED <<last, diffs, heap, expr, visited, calls, pc, ret>>

\* while stack: ... ; return visited[expr]
Return ==
    /\ pc = "loop" /\ stack = <<>>
    /\ IF visited[expr] = NotVisited
       THEN pc' = "error" /\ ret' = ret
       ELSE pc' = "done" /\ ret' = visited[expr]
    /\ UNCHANGED <<last, diffs, heap, expr, stack, visited, calls>>

\* ----------------------------------------------- operand graphs to traverse
\* Graphs the constructors build: a node's operands exist before the node.
RECURSIVE BuiltGraphs(_)
BuiltGraphs(n) ==
    IF n = 0 THEN {<<>>}
    ELSE {Append(h, Expression("Expression", 0, "", ops)) :
             h \in BuiltGraphs(n - 1),
             ops \in SeqsOver(1..(n - 1), 0, MaxArity)}

\* node.operands is a plain attribute: a caller can rebind one operand, which
\* is the only way a cycle can arise.
Rebound(h) ==
    UNION {{[h EXCEPT ![n].operands[i] = m] :
               i \in 1..Len(h[n].operands), m \in Nodes(h)} : n \in Nodes(h)}

\* visited = {}; stack = [(expr, False)]
InitVisit ==
    /\ \E n \in 1..NumNodes : \E h \in BuiltGraphs(n) : heap \in {h} \cup Rebound(h)
    /\ last = NoCall
    /\ diffs = <<>>
    /\ expr = Len(heap)
    /\ stack = <<<<expr, FALSE>>>>
    /\ visited = [n \in Nodes(heap) |-> NotVisited]
    /\ calls = <<>>
    /\ pc = "loop"
    /\ ret = NotVisited

NextVisit == Skip \/ Process \/ Expand \/ Return

\* The loop is ordinary sequential code: it keeps running while it can.
SpecVisit == InitVisit /\ [][NextVisit]_vars /\ WF_vars(NextVisit)

\* ------------------------------------------------- claims on postvisitor
\* value(n) = fn(n, value(o1), ..., value(ok)): the plain recursive definition.
RECURSIVE value(_, _)
value(h, n) ==
    <<n, [i \in 1..Len(h[n].operands) |-> value(h, h[n].operands[i])]>>

CallCount(n) == Cardinality({i \in 1..Len(calls) : calls[i][1] = n})

\* C1: in one traversal fn is never applied twice to a node, and when the
\* traversal has returned fn has been applied exactly once to every node
\* reachable from the root (and to no other), whatever the sharing.
C1_FnOncePerNode ==
    /\ \A n \in Nodes(heap) : CallCount(n) <= 1
    /\ pc = "done" =>
           \A n \in Nodes(heap) :
               CallCount(n) = IF n \in Reach(heap, expr) THEN 1 ELSE 0

\* e = Add(shared, shared): returned after 2 applications of fn.
C1_Witness ==
    /\ pc = "done"
    /\ heap[expr].operands = <<1, 1>>
    /\ Len(calls) = 2

\* C2: fn is never applied with an operand result missing; every application
\* gets the operands' values in operand order (none for a terminal); and the
\* value returned is the recursive definition's value of the root.
C2_BottomUpValue ==
    /\ pc # "error"
    /\ \A k \in 1..Len(calls) :
           LET n == calls[k][1] IN
           calls[k][2] = [i \in 1..Len(heap[n].operands) |->
                             value(heap, heap[n].operands[i])]
    /\ pc = "done" => AcyclicFrom(heap, expr) /\ ret = value(heap, expr)

\* A root with two different operands, the second built first, has returned.
C2_Witness ==
    /\ pc = "done"
    /\ Len(heap) = 3
    /\ heap[expr].operands = <<2, 1>>
    /\ heap[2].operands = <<1>>

\* C8: the loop returns exactly on the acyclic graphs, after as many
\* applications of fn as there are distinct reachable nodes; with a cycle
\* reachable from the root it never returns (and never fails).
C8_TerminatesIffAcyclic ==
    /\ [](pc = "done" =>
            /\ AcyclicFrom(heap, expr)
            /\ Len(calls) = Cardinality(Reach(heap, expr)))
    /\ (AcyclicFrom(heap, expr) => <>(pc = "done"))
    /\ (~AcyclicFrom(heap, expr) => [](pc = "loop" /\ stack # <<>>))

\* On a cyclic graph a node is expanded again while its first expansion is
\* still waiting on the stack.
C8_Witness ==
    /\ ~AcyclicFrom(heap, expr)
    /\ \E i, j \in 1..Len(stack) : i < j /\ stack[i] = stack[j] /\ stack[i][2]

====
